---- MODULE Spec2Model ----
(***************************************************************************)
(* Epidemic-Graph-Simulation: the agent health state machine (Agent.py),   *)
(* the L x L lattice with per-site occupant lists and the four-phase tick  *)
(* of the simulation engine (Network.py).                                  *)
(*                                                                         *)
(* Reals are kept as integers: probabilities and rates in hundredths       *)
(* (random.randint(1, 100) / 100 is the draw d in 1..100), the density N   *)
(* in tenths, the susceptibility factor in millionths.                     *)
(***************************************************************************)
EXTENDS Integers, Sequences, FiniteSets, TLC

\* ------------------------------------------------------------------ bounds

\* the largest number of ticks (--t) a configuration asks for
MaxT == 2
\* the largest initial population int(num_nodes * N) a configuration gives
MaxPop == 2
\* the most agents a run holds; at this count the influx is no longer followed
MaxAgents == 2
\* the largest phase lengths (--asym_l, --symp_l) the unit calls pass
MaxLen == 2
\* the largest same-age occupant count the unit calls pass to move_agent
MaxCount == 2

\* ------------------------------------------------------- program constants

\* random.randint(0, 82): the largest raw age
MaxAge == 82
\* random.randint(1, 100): the largest draw, in hundredths
MaxDraw == 100
\* if repeat_counter > 30: return
MaxRepeat == 30

\* random.randint(1, 100), all of it (the unit calls)
Draws == 1..MaxDraw

\* the draws of the engine runs: both sides of every threshold a run compares
\* a draw with (e^-1, e^-0.4 and e^-0.1 in hundredths, the influx rate, 1)
EngineDraws == {1, 2, 36, 37, 67, 68, 90, 91, 99, MaxDraw}

Categories == 1..4

Beta == [c \in Categories |-> c]

\* -------------------------------------------------------------- Agent.py

age_categorize(age) ==
    IF age <= 4 THEN 4
    ELSE IF 5 <= age /\ age <= 14 THEN 3
    ELSE IF 15 <= age /\ age <= 64 THEN 1
    ELSE 2

\* math.e ** (-k / 10) in millionths, for the values k = self.__age takes
ExpNegTenths(k) ==
    CASE k = 1 -> 904837
      [] k = 2 -> 818730
      [] k = 3 -> 740818
      [] k = 4 -> 670320

\* floor(100 * math.e ** x) for an integer x; from x = 5 on the value of
\* x = 5 stands for all larger ones (every draw is at most 100)
ExpPct(x) ==
    CASE x <= -5 -> 0
      [] x = -4 -> 1
      [] x = -3 -> 4
      [] x = -2 -> 13
      [] x = -1 -> 36
      [] x = 0 -> 100
      [] x = 1 -> 271
      [] x = 2 -> 738
      [] x = 3 -> 2008
      [] x = 4 -> 5459
      [] OTHER -> 14841

Min(a, b) == IF a <= b THEN a ELSE b

\* a location is what set_location / move_agent stored: the integer site id
\* ("id") or the attribute dictionary of a lattice node ("attrs")
SiteId(s) == [kind |-> "id", site |-> s]

NodeAttrs(s) == [kind |-> "attrs", site |-> s]

\* Agent(node) with agent_id = id and random.randint(0, 82) = raw
NewAgent(id, node, raw) ==
    [ id |-> id,
      label |-> "healthy",
      days_infected |-> -1,
      age |-> age_categorize(raw),
      location |-> SiteId(node),
      susceptibility_factor |-> ExpNegTenths(age_categorize(raw)) ]

get_infectious(a) == a.label \in {"asymptomatic", "symptomatic"}

get_symptomatic(a) == a.label = "symptomatic"

set_infected(a) == [a EXCEPT !.label = "asymptomatic", !.days_infected = 0]

\* update_agent with the death check run after the switch in the same call
update_agent_falls_through(a, asympt_phase_length, sympt_phase_length) ==
    IF a.label \notin {"healthy", "dead"}
    THEN LET days == a.days_infected + 1
             label == IF a.label = "asymptomatic" /\ days > asympt_phase_length
                      THEN "symptomatic" ELSE a.label
         IN  IF label = "symptomatic"
                /\ days > asympt_phase_length + sympt_phase_length
             THEN [ agent |-> [a EXCEPT !.label = "dead", !.days_infected = -1],
                    ret |-> TRUE ]
             ELSE [ agent |-> [a EXCEPT !.days_infected = days, !.label = label],
                    ret |-> FALSE ]
    ELSE [agent |-> a, ret |-> FALSE]

\* update_agent with the switch one call early (>= for >)
update_agent_switch_early(a, asympt_phase_length, sympt_phase_length) ==
    IF a.label \notin {"healthy", "dead"}
    THEN LET days == a.days_infected + 1
         IN  IF a.label = "asymptomatic"
             THEN [ agent |-> [a EXCEPT !.days_infected = days,
                                        !.label = IF days >= asympt_phase_length
                                                  THEN "symptomatic" ELSE @],
                    ret |-> FALSE ]
             ELSE IF days > asympt_phase_length + sympt_phase_length
                  THEN [ agent |-> [a EXCEPT !.label = "dead", !.days_infected = -1],
                         ret |-> TRUE ]
                  ELSE [ agent |-> [a EXCEPT !.days_infected = days], ret |-> FALSE ]
    ELSE [agent |-> a, ret |-> FALSE]

\* update_agent with a recovery in place of the death
update_agent_recovers(a, asympt_phase_length, sympt_phase_length) ==
    IF a.label \notin {"healthy", "dead"}
    THEN LET days == a.days_infected + 1
         IN  IF a.label = "asymptomatic"
             THEN [ agent |-> [a EXCEPT !.days_infected = days,
                                        !.label = IF days > asympt_phase_length
                                                  THEN "symptomatic" ELSE @],
                    ret |-> FALSE ]
             ELSE IF days > asympt_phase_length + sympt_phase_length
                  THEN [ agent |-> [a EXCEPT !.label = "healthy", !.days_infected = -1],
                         ret |-> FALSE ]
                  ELSE [ agent |-> [a EXCEPT !.days_infected = days], ret |-> FALSE ]
    ELSE [agent |-> a, ret |-> FALSE]

\* update_agent: the agent after the call and the returned death flag
update_agent(a, asympt_phase_length, sympt_phase_length) ==
    IF a.label \notin {"healthy", "dead"}
    THEN LET days == a.days_infected + 1
         IN  IF a.label = "asymptomatic"
             THEN [ agent |-> [a EXCEPT !.days_infected = days,
                                        !.label = IF days > asympt_phase_length
                                                  THEN "symptomatic" ELSE @],
                    ret |-> FALSE ]
             ELSE IF days > asympt_phase_length + sympt_phase_length
                  THEN [ agent |-> [a EXCEPT !.label = "dead", !.days_infected = -1],
                         ret |-> TRUE ]
                  ELSE [ agent |-> [a EXCEPT !.days_infected = days], ret |-> FALSE ]
    ELSE [agent |-> a, ret |-> FALSE]

\* expose_to_infection without the check of the label
expose_to_infection_any_label(a, lam, d) ==
    IF d * 1000000 <= lam * a.susceptibility_factor
    THEN [ agent |-> [a EXCEPT !.label = "asymptomatic", !.days_infected = 0],
           ret |-> TRUE ]
    ELSE [agent |-> a, ret |-> FALSE]

\* expose_to_infection with lambda = lam / 100 and the draw d / 100:
\* d / 100 <= (lam / 100) * (susceptibility_factor / 10^6)
expose_to_infection(a, lam, d) ==
    IF a.label \notin {"asymptomatic", "symptomatic", "dead"}
       /\ d * 1000000 <= lam * a.susceptibility_factor
    THEN [ agent |-> [a EXCEPT !.label = "asymptomatic", !.days_infected = 0],
           ret |-> TRUE ]
    ELSE [agent |-> a, ret |-> FALSE]

\* the acceptance probability of move_agent, in hundredths
prob_1_to_2(age, n_age_1, n_age_2) ==
    IF n_age_1 <= n_age_2
    THEN Min(100, ExpPct(Beta[age] * (n_age_2 - n_age_1)))
    ELSE ExpPct(-Beta[age] * (n_age_2 - n_age_1))

\* move_agent without the check for a symptomatic agent
move_agent_any_label(a, n_age_1, n_age_2, target_node, d) ==
    IF d <= prob_1_to_2(a.age, n_age_1, n_age_2)
    THEN [agent |-> [a EXCEPT !.location = target_node], ret |-> TRUE]
    ELSE [agent |-> a, ret |-> FALSE]

\* move_agent with the draw d / 100; target_node is what the caller passes
move_agent(a, n_age_1, n_age_2, target_node, d) ==
    IF a.label = "symptomatic"
    THEN [agent |-> a, ret |-> FALSE]
    ELSE IF d <= prob_1_to_2(a.age, n_age_1, n_age_2)
         THEN [agent |-> [a EXCEPT !.location = target_node], ret |-> TRUE]
         ELSE [agent |-> a, ret |-> FALSE]

\* ------------------------------------------------------------- Network.py

Sites(L) == 0..(L * L - 1)

\* nx.grid_2d_graph(m=L, n=L): the edges between coordinate pairs
grid_2d_graph(L) ==
    { <<<<i, j>>, <<i + 1, j>>>> : i \in 0..(L - 2), j \in 0..(L - 1) }
    \cup { <<<<i, j>>, <<i, j + 1>>>> : i \in 0..(L - 1), j \in 0..(L - 2) }

\* the diagonal edges added by add_edges_from
diagonal_edges(L) ==
    { <<<<x, y>>, <<x + 1, y + 1>>>> : x \in 0..(L - 2), y \in 0..(L - 2) }
    \cup { <<<<x + 1, y>>, <<x, y + 1>>>> : x \in 0..(L - 2), y \in 0..(L - 2) }

\* labels[(i, j)] = index_counter, counted row by row
labels(L, c) == c[1] * L + c[2]

\* the relabelled graph without the diagonal edges
generate_lattice_no_diagonals(L) ==
    LET edges == { <<labels(L, e[1]), labels(L, e[2])>> : e \in grid_2d_graph(L) }
    IN  [ s \in Sites(L) |->
            { n \in Sites(L) : <<s, n>> \in edges \/ <<n, s>> \in edges } ]

\* the relabelled undirected graph: the neighbors of every site
generate_lattice(L) ==
    LET edges == { <<labels(L, e[1]), labels(L, e[2])>> :
                     e \in grid_2d_graph(L) \cup diagonal_edges(L) }
    IN  [ s \in Sites(L) |->
            { n \in Sites(L) : <<s, n>> \in edges \/ <<n, s>> \in edges } ]

\* the side lengths the configurations use
Ls == {1, 2}

Lattice == [L \in 1..3 |-> generate_lattice(L)]

neighbors(L, s) == Lattice[L][s]

RECURSIVE SortedSeq(_)
\* the elements of a finite set of integers, ascending
SortedSeq(S) ==
    IF S = {} THEN <<>>
    ELSE LET m == CHOOSE x \in S : \A y \in S : x <= y
         IN  <<m>> \o SortedSeq(S \ {m})

RECURSIVE SumSeq(_)
SumSeq(q) == IF q = <<>> THEN 0 ELSE Head(q) + SumSeq(Tail(q))

\* int(num_nodes * N), N in tenths
population(L, N10) == (L * L * N10) \div 10

VARIABLES
    cfg,           \* the parsed arguments (args)
    pc,            \* where main / run_simulation stands
    agents,        \* the Agent objects, in creation order (agent id + 1)
    occupants,     \* site -> its "occupants" list, as agent ids
    stats,         \* self.__stats
    num_agents,    \* self.__num_agents
    time_elapsed,  \* self.__time_elapsed
    mv,            \* the locals of the last __check_for_movement call
    hist,          \* per agent, what happened to it (history, not program state)
    ua,            \* unit calls: the Agent object under test
    uraw,          \* unit calls: the raw age its constructor drew
    ucall          \* unit calls: the last call, its arguments and its result

vars == <<cfg, pc, agents, occupants, stats, num_agents, time_elapsed, mv, hist,
          ua, uraw, ucall>>

engine_vars == <<cfg, pc, agents, occupants, stats, num_agents, time_elapsed, mv, hist>>

unit_vars == <<ua, uraw, ucall>>

\* ------------------------------------------------------------ the inputs

\* --N in tenths
Densities == {1, 3, 5, 10}

\* --lam and --influx of the engine runs, in hundredths: at 1.0 some draws
\* infect (add an agent) and some do not
Lams == {100}

Influxes == {100}

\* <<--asym_l, --symp_l>> of the engine runs
PhasePairs == {<<0, 0>>, <<1, 0>>, <<0, 2>>}

\* the raw ages random.randint(0, 82) gives in the engine runs
RawAges == {0, 40}

\* --n_0 for a population of pop: none, one, and the two counts above pop (one
\* more than the agents, and one more than the indices 0..pop)
seed_counts(pop) == {0, 1, pop + 1, pop + 2}

ShortConfigs ==
    { c \in [ L : Ls, N10 : Densities, t : {0, MaxT}, n_0 : 0..(MaxPop + 2),
              lam : Lams, asym_l : 0..1, symp_l : 0..2, influx : Influxes ] :
        /\ population(c.L, c.N10) <= MaxPop
        /\ c.n_0 \in seed_counts(population(c.L, c.N10))
        /\ <<c.asym_l, c.symp_l>> \in PhasePairs }

\* --t that lets the longest course of the disease end: the death falls on
\* tick asym_l + max(symp_l, 1) + 1 after the seeding
LongT == 2 * MaxLen + 1

\* one seeded agent on the 2 x 2 or the 3 x 3 lattice and no influx (the
\* default), for every pair of phase lengths, run to the end of the disease
LongConfigs ==
    { c \in [ L : {2, 3}, N10 : {2, 3}, t : {LongT}, n_0 : {1}, lam : Lams,
              asym_l : 0..MaxLen, symp_l : 0..MaxLen, influx : {0} ] :
        population(c.L, c.N10) = 1 }

\* three agents on the 2 x 2 lattice, one of them seeded and symptomatic from
\* the first death phase on, for one tick: a site can hold a symptomatic
\* occupant in front of another one while a third agent is the mover
CrowdConfigs ==
    [ L : {2}, N10 : {8}, t : {1}, n_0 : {1}, lam : Lams,
      asym_l : {0}, symp_l : {2}, influx : {0} ]

Configs == ShortConfigs \cup LongConfigs \cup CrowdConfigs

\* the constraints the configuration record is documented to meet
ValidConfig(c) ==
    /\ c.L > 0 /\ c.N10 > 0 /\ c.t >= 0
    /\ c.n_0 >= 0 /\ c.n_0 <= population(c.L, c.N10)
    /\ c.lam >= 0 /\ c.lam <= 100
    /\ c.influx >= 0 /\ c.influx <= 100
    /\ c.asym_l >= 0 /\ c.symp_l >= 0

NoMv == [ s_1 |-> -1, s_2 |-> -1, repeat_counter |-> 0, mover |-> -1,
          moved |-> FALSE, probability |-> 0 ]

NoAgent == [ id |-> -1, label |-> "none", days_infected |-> -1, age |-> 1,
             location |-> SiteId(-1), susceptibility_factor |-> 0 ]

NoCall == [ op |-> "none", before |-> NoAgent, lam |-> 0, asym_l |-> 0,
            symp_l |-> 0, n_age_1 |-> 0, n_age_2 |-> 0, target_node |-> SiteId(-1),
            d |-> 0, ret |-> FALSE ]

UnitIdle == ua = NoAgent /\ uraw = 0 /\ ucall = NoCall

\* main has parsed the arguments; Network(args) has not run yet
Init ==
    /\ cfg \in Configs
    /\ pc = "args"
    /\ agents = <<>>
    /\ occupants = <<>>
    /\ stats = <<>>
    /\ num_agents = 0
    /\ time_elapsed = 0
    /\ mv = NoMv
    /\ hist = <<>>
    /\ UnitIdle

\* ---------------------------------------------------- Network.__init__

\* the engine state the loops below work on
EngineState(ag, occ, st, n, h) ==
    [agents |-> ag, occupants |-> occ, stats |-> st, num_agents |-> n, hist |-> h]

NewHist(raw, counted) ==
    [raw |-> raw, counted |-> counted, calls |-> 0, true_at |-> <<>>, exposed |-> FALSE,
     caught |-> FALSE]

\* the creation loop counting a seeded agent as infected only, not as alive
populate_step_seed_not_alive(e, i, node, raw, infected_indices) ==
    LET fresh == NewAgent(Len(e.agents), node, raw)
        agent == IF i \in infected_indices THEN set_infected(fresh) ELSE fresh
    IN  EngineState(
            Append(e.agents, agent),
            [e.occupants EXCEPT ![agent.location.site] = Append(@, agent.id)],
            IF i \in infected_indices
            THEN [e.stats EXCEPT ![agent.age].infected = @ + 1, ![agent.age].total = @ + 1]
            ELSE [e.stats EXCEPT ![agent.age].total = @ + 1, ![agent.age].alive = @ + 1],
            e.num_agents + 1,
            Append(e.hist, NewHist(raw, IF i \in infected_indices THEN 1 ELSE 0)))

\* one pass of the creation loop of __populate_lattice, for creation index i
populate_step(e, i, node, raw, infected_indices) ==
    LET fresh == NewAgent(Len(e.agents), node, raw)
        agent == IF i \in infected_indices THEN set_infected(fresh) ELSE fresh
        st1 == IF i \in infected_indices
               THEN [e.stats EXCEPT ![agent.age].infected = @ + 1]
               ELSE e.stats
    IN  EngineState(
            Append(e.agents, agent),
            [e.occupants EXCEPT ![agent.location.site] = Append(@, agent.id)],
            [st1 EXCEPT ![agent.age].total = @ + 1, ![agent.age].alive = @ + 1],
            e.num_agents + 1,
            Append(e.hist, NewHist(raw, IF i \in infected_indices THEN 1 ELSE 0)))

RECURSIVE populate_loop(_, _, _, _, _, _)
\* for i in range(int(num_nodes * N)), with the random nodes and raw ages given
populate_loop(e, i, n, nodes, raws, infected_indices) ==
    IF i >= n THEN e
    ELSE populate_loop(populate_step(e, i, nodes[i + 1], raws[i + 1], infected_indices),
                       i + 1, n, nodes, raws, infected_indices)

\* the index sets the rejection sampling of __populate_lattice can end with:
\* n_0 distinct values of random.randint(0, int(num_nodes * N))
infected_index_sets(n_0, pop) ==
    { I \in SUBSET (0..pop) : Cardinality(I) = n_0 }

\* the stats dictionary and the empty lattice of __init__ / __generate_lattice
EmptyEngine(L) ==
    EngineState(<<>>, [s \in Sites(L) |-> <<>>],
                [c \in Categories |-> [total |-> 0, alive |-> 0, dead |-> 0, infected |-> 0]],
                0, <<>>)

\* while self.__time_elapsed < self.__network_params["t"]
run_position(elapsed, t) == IF elapsed < t THEN "infection" ELSE "finished"

\* Network(args): __generate_lattice, then __populate_lattice. The sampling
\* loop never ends once all of 0..pop are taken and another index is needed.
Construct ==
    /\ pc = "args"
    /\ LET pop == population(cfg.L, cfg.N10)
       IN  IF cfg.n_0 > pop + 1
           THEN /\ pc' = "populate_hang"
                /\ occupants' = EmptyEngine(cfg.L).occupants
                /\ stats' = EmptyEngine(cfg.L).stats
                /\ UNCHANGED <<agents, num_agents, hist>>
           ELSE \E I \in infected_index_sets(cfg.n_0, pop) :
                \E nodes \in [1..pop -> Sites(cfg.L)] :
                \E raws \in [1..pop -> RawAges] :
                  LET e == populate_loop(EmptyEngine(cfg.L), 0, pop, nodes, raws, I)
                  IN  /\ agents' = e.agents
                      /\ occupants' = e.occupants
                      /\ stats' = e.stats
                      /\ num_agents' = e.num_agents
                      /\ hist' = e.hist
                      /\ pc' = run_position(time_elapsed, cfg.t)
    /\ UNCHANGED <<cfg, time_elapsed, mv, unit_vars>>

\* ----------------------------------------------- __check_for_infection

\* range(0, len(occupants) - 1): the occupants the exposure loop visits
exposed_occupants(occ) == SubSeq(occ, 1, Len(occ) - 1)

\* what a call of expose_to_infection can give, over all draws
expose_results(a, lam) == { expose_to_infection(a, lam, d) : d \in EngineDraws }

\* the statistics update counting every exposure, infected or not
expose_step_counts_calls(e, o, r) ==
    [e EXCEPT !.agents[o + 1] = r.agent,
              !.stats[r.agent.age].infected = @ + 1,
              !.hist[o + 1].counted = IF r.ret THEN @ + 1 ELSE @,
              !.hist[o + 1].exposed = TRUE,
              !.hist[o + 1].caught = r.ret]

\* the statistics update after expose_to_infection on occupant o gave r
expose_step(e, o, r) ==
    IF r.ret
    THEN [e EXCEPT !.agents[o + 1] = r.agent,
                   !.stats[r.agent.age].infected = @ + 1,
                   !.hist[o + 1].counted = @ + 1,
                   !.hist[o + 1].exposed = TRUE,
                   !.hist[o + 1].caught = TRUE]
    ELSE [e EXCEPT !.agents[o + 1] = r.agent, !.hist[o + 1].exposed = TRUE]

RECURSIVE expose_all(_, _, _)
\* the engine states after exposing the targets in turn, over all draws
expose_all(E, targets, lam) ==
    IF targets = <<>> THEN E
    ELSE expose_all(UNION { { expose_step(e, Head(targets), r) :
                                r \in expose_results(e.agents[Head(targets) + 1], lam) } :
                              e \in E },
                    Tail(targets), lam)

RECURSIVE Flatten(_)
Flatten(qq) == IF qq = <<>> THEN <<>> ELSE Head(qq) \o Flatten(Tail(qq))

\* neighbors + [node]: the sites an occupant of node reaches (their order
\* decides only the order of independent draws)
reached_sites(L, node) == SortedSeq(neighbors(L, node)) \o <<node>>

\* the occupants an infectious occupant of node exposes, in order
exposure_targets(L, occ, node) ==
    LET rs == reached_sites(L, node)
    IN  Flatten([k \in 1..Len(rs) |-> exposed_occupants(occ[rs[k]])])

\* every (node, occupant) the outer loops visit, in order
all_occupants(L, occ) ==
    Flatten([k \in 1..(L * L) |->
               [j \in 1..Len(occ[k - 1]) |-> <<k - 1, occ[k - 1][j]>>]])

RECURSIVE infect_from(_, _, _, _)
\* the outer loops: each occupant that is infectious when its turn comes
\* exposes its targets
infect_from(E, sources, L, lam) ==
    IF sources = <<>> THEN E
    ELSE LET node == Head(sources)[1]
             o == Head(sources)[2]
         IN  infect_from(
                 UNION { IF get_infectious(e.agents[o + 1])
                         THEN expose_all({e}, exposure_targets(L, e.occupants, node), lam)
                         ELSE {e} : e \in E },
                 Tail(sources), L, lam)

check_for_infection(e, L, lam) == infect_from({e}, all_occupants(L, e.occupants), L, lam)

Current == EngineState(agents, occupants, stats, num_agents, hist)

Infection ==
    /\ pc = "infection"
    /\ \E e \in check_for_infection(Current, cfg.L, cfg.lam) :
         /\ agents' = e.agents
         /\ stats' = e.stats
         /\ hist' = e.hist
    /\ pc' = "death"
    /\ mv' = NoMv
    /\ UNCHANGED <<cfg, occupants, num_agents, time_elapsed, unit_vars>>

\* --------------------------------------------------- __check_for_death

\* the death phase counting a death without taking it from alive
death_step_keeps_alive(e, o, asym_l, symp_l) ==
    LET r == update_agent(e.agents[o + 1], asym_l, symp_l)
        counted == e.agents[o + 1].label \notin {"healthy", "dead"}
        h == [e.hist[o + 1] EXCEPT
                !.exposed = FALSE,
                !.caught = FALSE,
                !.calls = IF counted THEN @ + 1 ELSE @,
                !.true_at = IF r.ret THEN Append(@, e.hist[o + 1].calls + 1) ELSE @]
    IN  IF r.ret
        THEN [e EXCEPT !.agents[o + 1] = r.agent,
                       !.num_agents = @ - 1,
                       !.stats[r.agent.age].dead = @ + 1,
                       !.hist[o + 1] = h]
        ELSE [e EXCEPT !.agents[o + 1] = r.agent, !.hist[o + 1] = h]

\* the death phase taking a dead agent out of the total of its category
death_step_leaves_total(e, o, asym_l, symp_l) ==
    LET r == update_agent(e.agents[o + 1], asym_l, symp_l)
        counted == e.agents[o + 1].label \notin {"healthy", "dead"}
        h == [e.hist[o + 1] EXCEPT
                !.exposed = FALSE,
                !.caught = FALSE,
                !.calls = IF counted THEN @ + 1 ELSE @,
                !.true_at = IF r.ret THEN Append(@, e.hist[o + 1].calls + 1) ELSE @]
    IN  IF r.ret
        THEN [e EXCEPT !.agents[o + 1] = r.agent,
                       !.num_agents = @ - 1,
                       !.stats[r.agent.age].total = @ - 1,
                       !.stats[r.agent.age].alive = @ - 1,
                       !.stats[r.agent.age].dead = @ + 1,
                       !.hist[o + 1] = h]
        ELSE [e EXCEPT !.agents[o + 1] = r.agent, !.hist[o + 1] = h]

\* update_agent on occupant o and the statistics update on a death
death_step(e, o, asym_l, symp_l) ==
    LET r == update_agent(e.agents[o + 1], asym_l, symp_l)
        counted == e.agents[o + 1].label \notin {"healthy", "dead"}
        h == [e.hist[o + 1] EXCEPT
                !.exposed = FALSE,
                !.caught = FALSE,
                !.calls = IF counted THEN @ + 1 ELSE @,
                !.true_at = IF r.ret THEN Append(@, e.hist[o + 1].calls + 1) ELSE @]
    IN  IF r.ret
        THEN [e EXCEPT !.agents[o + 1] = r.agent,
                       !.num_agents = @ - 1,
                       !.stats[r.agent.age].alive = @ - 1,
                       !.stats[r.agent.age].dead = @ + 1,
                       !.hist[o + 1] = h]
        ELSE [e EXCEPT !.agents[o + 1] = r.agent, !.hist[o + 1] = h]

RECURSIVE death_loop(_, _, _, _)
death_loop(e, visits, asym_l, symp_l) ==
    IF visits = <<>> THEN e
    ELSE death_loop(death_step(e, Head(visits)[2], asym_l, symp_l),
                    Tail(visits), asym_l, symp_l)

check_for_death(e, L, asym_l, symp_l) ==
    death_loop(e, all_occupants(L, e.occupants), asym_l, symp_l)

Death ==
    /\ pc = "death"
    /\ LET e == check_for_death(Current, cfg.L, cfg.asym_l, cfg.symp_l)
       IN  /\ agents' = e.agents
           /\ stats' = e.stats
           /\ num_agents' = e.num_agents
           /\ hist' = e.hist
    /\ pc' = "movement"
    /\ UNCHANGED <<cfg, occupants, time_elapsed, mv, unit_vars>>

\* ------------------------------------------------ __check_for_movement

\* the check of site s_2: range(0, len(occupants) - 1) and get_symptomatic
symptomatic_seen(e, s_2) ==
    \E k \in 1..(Len(e.occupants[s_2]) - 1) :
        get_symptomatic(e.agents[e.occupants[s_2][k] + 1])

RECURSIVE resample_loop(_, _, _, _)
\* the while True loop, for every candidate s_2 in picks at this count: the
\* (s_2, repeat_counter) pairs it can leave with, and whether it returned
resample_loop(e, nbrs, picks, repeat_counter) ==
    IF repeat_counter > MaxRepeat
    THEN { [s_2 |-> n, repeat_counter |-> repeat_counter, returned |-> TRUE] : n \in picks }
    ELSE { [s_2 |-> n, repeat_counter |-> repeat_counter, returned |-> FALSE] :
             n \in { p \in picks : ~symptomatic_seen(e, p) } }
         \cup (IF \E p \in picks : symptomatic_seen(e, p)
               THEN resample_loop(e, nbrs, nbrs, repeat_counter + 1)
               ELSE {})

\* the counting loops over all occupants of a site
same_age_count(e, site, age_category) ==
    Cardinality({ k \in 1..Len(e.occupants[site]) :
                    e.agents[e.occupants[site][k] + 1].age = age_category })

\* a list without its first element, whatever the index
Pop_head(q, k) == Tail(q)

\* a list without its element at index k (list.pop(k), k from 1)
Pop(q, k) == SubSeq(q, 1, k - 1) \o SubSeq(q, k + 1, Len(q))

\* what the move_agent call on the occupant at agent_index of s_1 towards s_2
\* can give, over all draws: the target passed is self.__lattice.nodes[s_2_index]
move_results(e, s_1, s_2, agent_index) ==
    LET o == e.occupants[s_1][agent_index]
        age_category == e.agents[o + 1].age
        n_age_1 == same_age_count(e, s_1, age_category)
        n_age_2 == same_age_count(e, s_2, age_category)
    IN  { move_agent(e.agents[o + 1], n_age_1, n_age_2, NodeAttrs(s_2), d) : d \in EngineDraws }

\* the update after a move that leaves the mover in the origin's list too
attempt_move_keeps_origin(e, s_1, s_2, agent_index, r) ==
    LET o == e.occupants[s_1][agent_index]
    IN  IF r.ret
        THEN [e EXCEPT !.agents[o + 1] = r.agent,
                       !.occupants[s_2] = Append(@, o)]
        ELSE [e EXCEPT !.agents[o + 1] = r.agent]

\* the update of both occupant lists after move_agent gave r
attempt_move(e, s_1, s_2, agent_index, r) ==
    LET o == e.occupants[s_1][agent_index]
    IN  IF r.ret
        THEN [e EXCEPT !.agents[o + 1] = r.agent,
                       !.occupants[s_1] = Pop(@, agent_index),
                       !.occupants[s_2] = Append(@, o)]
        ELSE [e EXCEPT !.agents[o + 1] = r.agent]

Movement ==
    /\ pc = "movement"
    /\ LET occupied == { s \in Sites(cfg.L) : Len(occupants[s]) # 0 }
       IN  IF occupied = {}
           THEN \* while len(occupants) == 0: no draw ever leaves the loop
                /\ pc' = "movement_hang"
                /\ UNCHANGED <<agents, occupants, mv>>
           ELSE \E s_1 \in occupied :
                  IF neighbors(cfg.L, s_1) = {}
                  THEN \* random.randint(0, -1) raises ValueError
                       /\ pc' = "movement_error"
                       /\ mv' = [NoMv EXCEPT !.s_1 = s_1]
                       /\ UNCHANGED <<agents, occupants>>
                  ELSE \E sel \in resample_loop(Current, neighbors(cfg.L, s_1),
                                                neighbors(cfg.L, s_1), 0) :
                         IF sel.returned
                         THEN /\ mv' = [ NoMv EXCEPT !.s_1 = s_1, !.s_2 = sel.s_2,
                                              !.repeat_counter = sel.repeat_counter ]
                              /\ pc' = "influx"
                              /\ UNCHANGED <<agents, occupants>>
                         ELSE \E agent_index \in 1..Len(occupants[s_1]) :
                              \E r \in move_results(Current, s_1, sel.s_2, agent_index) :
                                LET e == attempt_move(Current, s_1, sel.s_2, agent_index, r)
                                IN  /\ agents' = e.agents
                                    /\ occupants' = e.occupants
                                    /\ mv' = [ NoMv EXCEPT
                                               !.s_1 = s_1, !.s_2 = sel.s_2,
                                               !.repeat_counter = sel.repeat_counter,
                                               !.mover = occupants[s_1][agent_index],
                                               !.moved = e.occupants # occupants ]
                                    /\ pc' = "influx"
    /\ UNCHANGED <<cfg, stats, num_agents, time_elapsed, hist, unit_vars>>

\* -------------------------------------------------- __check_for_influx

\* the new agent of __check_for_influx at the drawn node, with the drawn age
influx_agent(e, node, raw) ==
    LET agent == NewAgent(Len(e.agents), node, raw)
    IN  EngineState(
            Append(e.agents, agent),
            [e.occupants EXCEPT ![agent.location.site] = Append(@, agent.id)],
            [e.stats EXCEPT ![agent.age].total = @ + 1, ![agent.age].alive = @ + 1],
            e.num_agents + 1,
            Append(e.hist, NewHist(raw, 0)))

\* the draws of the influx phase: the lowest, and both sides of the rate 1.0
InfluxDraws == {1, MaxDraw - 1, MaxDraw}

\* the influx test with <= for <
influx_due_inclusive(d, influx) == d <= influx

\* if probability < influx, both in hundredths
influx_due(d, influx) == d < influx

\* __check_for_influx, then the rest of __timestep and the loop test of
\* run_simulation
Influx ==
    /\ pc = "influx"
    /\ \E probability \in InfluxDraws :
         /\ IF influx_due(probability, cfg.influx)
            THEN /\ Len(agents) < MaxAgents
                 /\ \E node \in Sites(cfg.L) : \E raw \in RawAges :
                     LET e == influx_agent(Current, node, raw)
                     IN  /\ agents' = e.agents
                         /\ occupants' = e.occupants
                         /\ stats' = e.stats
                         /\ num_agents' = e.num_agents
                         /\ hist' = e.hist
            ELSE UNCHANGED <<agents, occupants, stats, num_agents, hist>>
         /\ mv' = [NoMv EXCEPT !.probability = probability]
    /\ time_elapsed' = time_elapsed + 1
    /\ pc' = run_position(time_elapsed + 1, cfg.t)
    /\ UNCHANGED <<cfg, unit_vars>>

Next == Construct \/ Infection \/ Death \/ Movement \/ Influx

Spec == Init /\ [][Next]_vars

\* ------------------------------------------- unit calls on one Agent

\* the raw ages of the unit calls: both ends of every age category
UnitRawAges == {0, 4, 5, 14, 15, 64, 65, MaxAge}

\* lambda of the unit calls, in hundredths
UnitLams == {0, 50, 100, 150}

NoCfg == [ L |-> 1, N10 |-> 0, t |-> 0, n_0 |-> 0, lam |-> 0, asym_l |-> 0,
           symp_l |-> 0, influx |-> 0 ]

EngineIdle ==
    /\ cfg = NoCfg
    /\ pc = "unit"
    /\ agents = <<>>
    /\ occupants = <<>>
    /\ stats = <<>>
    /\ num_agents = 0
    /\ time_elapsed = 0
    /\ mv = NoMv
    /\ hist = <<>>

\* agent = Agent(0) with any raw age
UnitInit ==
    /\ EngineIdle
    /\ uraw \in UnitRawAges
    /\ ua = NewAgent(0, 0, uraw)
    /\ ucall = [NoCall EXCEPT !.op = "new"]

\* no call is in progress: the caller holds the agent only
UnitReady == pc = "unit" /\ ucall.op \in {"new", "returned"}

UnitSetInfected ==
    /\ UnitReady
    /\ ua' = set_infected(ua)
    /\ ucall' = [NoCall EXCEPT !.op = "set_infected", !.before = ua]
    /\ UNCHANGED <<uraw, engine_vars>>

UnitUpdate ==
    /\ UnitReady
    /\ \E a \in 0..MaxLen : \E s \in 0..MaxLen :
         LET r == update_agent(ua, a, s)
         IN  /\ ua' = r.agent
             /\ ucall' = [NoCall EXCEPT !.op = "update_agent", !.before = ua,
                                        !.asym_l = a, !.symp_l = s, !.ret = r.ret]
    /\ UNCHANGED <<uraw, engine_vars>>

UnitExpose ==
    /\ UnitReady
    /\ \E lam \in UnitLams : \E d \in Draws :
         LET r == expose_to_infection(ua, lam, d)
         IN  /\ ua' = r.agent
             /\ ucall' = [NoCall EXCEPT !.op = "expose_to_infection", !.before = ua,
                                        !.lam = lam, !.d = d, !.ret = r.ret]
    /\ UNCHANGED <<uraw, engine_vars>>

\* the destinations of the unit calls, passed as the engine passes them
UnitTargets == { NodeAttrs(1), NodeAttrs(2) }

UnitMove ==
    /\ UnitReady
    /\ \E n_age_1 \in 0..MaxCount : \E n_age_2 \in 0..MaxCount :
       \E target_node \in UnitTargets : \E d \in Draws :
         LET r == move_agent(ua, n_age_1, n_age_2, target_node, d)
         IN  /\ ua' = r.agent
             /\ ucall' = [NoCall EXCEPT !.op = "move_agent", !.before = ua,
                                        !.n_age_1 = n_age_1, !.n_age_2 = n_age_2,
                                        !.target_node = target_node,
                                        !.d = d, !.ret = r.ret]
    /\ UNCHANGED <<uraw, engine_vars>>

\* the caller has used the result and drops the arguments
UnitReturn ==
    /\ pc = "unit"
    /\ ~UnitReady
    /\ ucall' = [NoCall EXCEPT !.op = "returned"]
    /\ UNCHANGED <<ua, uraw, engine_vars>>

UnitNext == UnitSetInfected \/ UnitUpdate \/ UnitExpose \/ UnitMove \/ UnitReturn

AgentSpec == UnitInit /\ [][UnitNext]_vars

\* the engine runs and the unit calls side by side
FullSpec == (Init \/ UnitInit) /\ [][Next \/ UnitNext]_vars

\* ------------------------------------------------------------ the claims

Max(a, b) == IF a >= b THEN a ELSE b

\* Network(args) has returned
Constructed ==
    pc \in {"infection", "death", "movement", "influx", "finished",
            "movement_hang", "movement_error"}

AgentIds == 0..(Len(agents) - 1)

\* how often agent id o stands in the occupant list of site s
Occurrences(s, o) == Cardinality({ k \in 1..Len(occupants[s]) : occupants[s][k] = o })

\* C1: in every state after construction, every agent's location is a site
\* id in [0, L*L) and the agent stands in the occupant list of exactly the
\* site its location names.
C1_LocationNamesSite ==
    Constructed =>
      \A o \in AgentIds :
        /\ agents[o + 1].location.kind = "id"
        /\ agents[o + 1].location.site \in Sites(cfg.L)
        /\ \A s \in Sites(cfg.L) :
             Occurrences(s, o) = IF s = agents[o + 1].location.site THEN 1 ELSE 0

\* right after Network(args), before the first tick
JustConstructed == Constructed /\ time_elapsed = 0 /\ pc \in {"infection", "finished"}

\* C2: right after construction from a valid configuration exactly n_0 agents
\* are asymptomatic with days_infected 0, all others are healthy, and the
\* infected counters of the four categories sum to n_0.
C2_SeedsExactlyN0 ==
    (JustConstructed /\ ValidConfig(cfg)) =>
      /\ Cardinality({ o \in AgentIds : agents[o + 1].label = "asymptomatic"
                                       /\ agents[o + 1].days_infected = 0 }) = cfg.n_0
      /\ \A o \in AgentIds : agents[o + 1].label \in {"asymptomatic", "healthy"}
      /\ SumSeq([c \in Categories |-> stats[c].infected]) = cfg.n_0

\* C3: a run from a valid configuration executes exactly t ticks and ends;
\* with no occupant anywhere the movement phase is skipped, it does not spin.
C3_RunsExactlyTTicks ==
    ValidConfig(cfg) =>
      /\ pc # "movement_hang"
      /\ time_elapsed <= cfg.t
      /\ (pc = "finished" => time_elapsed = cfg.t)

\* C4: no phase of a tick ends in an error for a valid configuration, also
\* with L = 1, where the single site has no neighbors.
C4_NoPhaseFails == ValidConfig(cfg) => pc # "movement_error"

\* C5: from a configuration that violates a constraint, construction ends in
\* a ConfigurationError: no lattice, agent or statistic is made, nothing hangs.
C5_InvalidConfigRejected ==
    ~ValidConfig(cfg) =>
      /\ pc \in {"args", "configuration_error"}
      /\ agents = <<>> /\ occupants = <<>> /\ stats = <<>>

\* the update_agent call on which an agent infected under cfg dies
DeathCall == cfg.asym_l + Max(cfg.symp_l, 1) + 1

\* every agent is where its number of update_agent calls since infection puts it
C6_Schedule ==
    \A o \in AgentIds :
      LET a == agents[o + 1]
          h == hist[o + 1]
      IN  /\ a.label = "healthy" => h.calls = 0 /\ h.true_at = <<>>
          /\ a.label = "asymptomatic" =>
                h.calls = a.days_infected /\ h.calls <= cfg.asym_l /\ h.true_at = <<>>
          /\ a.label = "symptomatic" =>
                /\ h.calls = a.days_infected /\ h.true_at = <<>>
                /\ cfg.asym_l < h.calls /\ h.calls < DeathCall
          /\ a.label = "dead" => h.calls = DeathCall /\ h.true_at = <<DeathCall>>

\* no call takes an asymptomatic agent to dead, and a death phase moves one
\* from alive to dead in its category for every agent that dies in it
C6_Step ==
    /\ \A o \in AgentIds :
         agents[o + 1].label = "asymptomatic" => agents'[o + 1].label # "dead"
    /\ pc = "death" =>
         \A c \in Categories :
           LET dying == { o \in AgentIds : /\ agents[o + 1].age = c
                                          /\ agents[o + 1].label # "dead"
                                          /\ agents'[o + 1].label = "dead" }
           IN  /\ stats'[c].dead = stats[c].dead + Cardinality(dying)
               /\ stats'[c].alive = stats[c].alive - Cardinality(dying)
               /\ stats'[c].total = stats[c].total

\* C6: an agent that became asymptomatic with days_infected 0 and is advanced
\* once per tick never goes from asymptomatic to dead in one call, dies on
\* exactly the call numbered asym_l + max(symp_l, 1) + 1, the only call that
\* returns true, and that death phase takes one from alive and adds one to
\* dead in its category (asym_l = symp_l = 0: symptomatic with days 1 after
\* the first death phase, dead in the second).
C6_DeathOnSchedule == []C6_Schedule /\ [][C6_Step]_vars

\* an agent seeded under asym_l = symp_l = 0 has died in the second death
\* phase, as the only dead agent of its category
C6_Witness ==
    /\ cfg.asym_l = 0 /\ cfg.symp_l = 0 /\ time_elapsed = 1 /\ pc = "movement"
    /\ \E o \in AgentIds :
         /\ agents[o + 1].label = "dead"
         /\ hist[o + 1].true_at = <<2>>
         /\ stats[agents[o + 1].age].dead = 1

\* C7: one update_agent call on an asymptomatic agent returns false, raises
\* days_infected by one without resetting it, and switches the label to
\* symptomatic exactly when the raised days_infected exceeds asym_l, so
\* with asym_l = 0 on the first call after infection.
C7_SwitchWhenDaysExceed ==
    (pc = "unit" /\ ucall.op = "update_agent"
                /\ ucall.before.label = "asymptomatic") =>
      /\ ucall.ret = FALSE
      /\ ua.days_infected = ucall.before.days_infected + 1
      /\ ua.label = IF ucall.before.days_infected + 1 > ucall.asym_l
                    THEN "symptomatic" ELSE "asymptomatic"
      /\ ua = [ucall.before EXCEPT !.days_infected = ua.days_infected,
                                   !.label = ua.label]

\* the first call after infection under asym_l = 0 has switched the label
C7_Witness ==
    /\ pc = "unit" /\ ucall.op = "update_agent" /\ ucall.asym_l = 0
    /\ ucall.before.label = "asymptomatic" /\ ucall.before.days_infected = 0
    /\ ua.label = "symptomatic" /\ ua.days_infected = 1

\* C8: expose_to_infection on an asymptomatic, symptomatic or dead agent
\* returns false and leaves the agent unchanged for every lambda and every
\* draw, so no agent of a run is counted as infected more than once.
C8_ExposeOnlyHealthy ==
    /\ (pc = "unit" /\ ucall.op = "expose_to_infection"
                    /\ ucall.before.label \in {"asymptomatic", "symptomatic", "dead"}) =>
          ucall.ret = FALSE /\ ua = ucall.before
    /\ pc # "unit" => \A o \in AgentIds : hist[o + 1].counted <= 1

\* a symptomatic agent was exposed at the highest lambda with the lowest draw
C8_Witness ==
    /\ pc = "unit" /\ ucall.op = "expose_to_infection"
    /\ ucall.before.label = "symptomatic"
    /\ ucall.lam = 150 /\ ucall.d = 1
    /\ ucall.ret = FALSE

\* C9: move_agent on a symptomatic agent returns false and leaves the
\* location unchanged for every pair of counts and every draw, and a
\* symptomatic mover of a tick stays in the occupant list of the origin.
C9_SymptomaticStays ==
    /\ (pc = "unit" /\ ucall.op = "move_agent"
                    /\ ucall.before.label = "symptomatic") =>
          ucall.ret = FALSE /\ ua = ucall.before
    /\ (pc # "unit" /\ mv.mover >= 0 /\ agents[mv.mover + 1].label = "symptomatic") =>
          /\ mv.moved = FALSE
          /\ Occurrences(mv.s_1, mv.mover) = 1
          /\ Occurrences(mv.s_2, mv.mover) = 0

\* the movement phase chose a symptomatic mover with a destination
C9_Witness ==
    /\ pc = "influx" /\ mv.mover >= 0 /\ mv.s_2 >= 0
    /\ agents[mv.mover + 1].label = "symptomatic"
    /\ Occurrences(mv.s_1, mv.mover) = 1

\* C10: the susceptibility factor is a function of the raw age, 1.0 at raw
\* age 0 and strictly decreasing in it, so a healthy agent of raw age 0 is
\* infected by an exposure at lambda = 1.0 whatever the draw.
C10_SusceptibilityByRawAge ==
    pc = "unit" =>
      /\ uraw = 0 => ua.susceptibility_factor = 1000000
      /\ \A raw \in UnitRawAges :
           raw < uraw => NewAgent(0, 0, raw).susceptibility_factor
                           > ua.susceptibility_factor
      /\ (ucall.op = "expose_to_infection" /\ ucall.before.label = "healthy"
            /\ uraw = 0 /\ ucall.lam = 100) => ucall.ret = TRUE

\* one step out of the influx phase, against the draw it made
C11_Step ==
    pc = "influx" =>
      IF mv'.probability < cfg.influx
      THEN LET a == agents'[Len(agents')]
           IN  /\ agents' = Append(agents, a)
               /\ a.id = Len(agents) /\ a.label = "healthy" /\ a.days_infected = -1
               /\ a.location.kind = "id" /\ a.location.site \in Sites(cfg.L)
               /\ occupants' = [occupants EXCEPT ![a.location.site] = Append(@, a.id)]
               /\ stats' = [stats EXCEPT ![a.age].total = @ + 1, ![a.age].alive = @ + 1]
               /\ num_agents' = num_agents + 1
      ELSE UNCHANGED <<agents, occupants, stats, num_agents>>

\* C11: the influx phase adds an agent exactly when its draw is strictly
\* below the influx rate: then one healthy agent with the days_infected
\* sentinel joins one site and total and alive of its category rise by one;
\* otherwise nothing changes (rate 1.0: only the draw 1.00 adds none; rate 0:
\* no draw adds one).
C11_InfluxOnDraw == [][C11_Step]_vars

\* the draw 0.99 under the rate 1.0 has added an agent to the initial ones
C11_Witness ==
    /\ pc \in {"infection", "finished"} /\ cfg.influx = 100
    /\ mv.probability = MaxDraw - 1
    /\ Len(agents) = population(cfg.L, cfg.N10) + 1
    /\ agents[Len(agents)].label = "healthy"

\* one step of a constructed engine, on the four counters of every category
C12_Step ==
    Constructed =>
      \A c \in Categories :
        /\ stats'[c].total >= stats[c].total
        /\ stats'[c].dead >= stats[c].dead
        /\ stats'[c].infected >= stats[c].infected
        /\ stats'[c].alive < stats[c].alive => pc = "death"

\* C12: for every age category total, dead and infected never decrease from
\* one phase to the next; alive decreases in a death phase only.
C12_CountersMonotone == [][C12_Step]_vars

\* a category has lost an agent to a death phase and still has one alive
C12_Witness ==
    /\ Constructed
    /\ \E c \in Categories :
         stats[c].dead = 1 /\ stats[c].alive >= 1 /\ stats[c].infected >= 1

\* sites s_1 and s_2 of the L x L grid touch, by an edge or by a corner
Adjacent(L, s_1, s_2) ==
    /\ s_1 # s_2
    /\ (s_1 \div L) - (s_2 \div L) \in {-1, 0, 1}
    /\ (s_1 % L) - (s_2 % L) \in {-1, 0, 1}

\* one step out of the movement phase
C13_Step ==
    pc = "movement" =>
      /\ stats' = stats /\ num_agents' = num_agents
      /\ Len(agents') = Len(agents)
      /\ \A o \in AgentIds :
           agents'[o + 1] = [agents[o + 1] EXCEPT !.location = agents'[o + 1].location]
      /\ \/ occupants' = occupants /\ agents' = agents
         \/ \E s_1 \in Sites(cfg.L) : \E s_2 \in Sites(cfg.L) :
            \E k \in 1..Len(occupants[s_1]) :
              /\ Adjacent(cfg.L, s_1, s_2)
              /\ occupants' = [occupants EXCEPT
                                 ![s_1] = SubSeq(@, 1, k - 1) \o SubSeq(@, k + 1, Len(@)),
                                 ![s_2] = Append(@, occupants[s_1][k])]
              /\ \A o \in AgentIds \ {occupants[s_1][k]} : agents'[o + 1] = agents[o + 1]

\* C13: the movement phase changes the site of at most one agent, to a grid
\* neighbor of its old site, and nothing else: no id, age category, label or
\* days_infected, no counter, and no occupant list but the two involved.
C13_MovementFrame == [][C13_Step]_vars

\* an agent has moved on the 3 x 3 lattice, where not every site is a neighbor
C13_Witness ==
    /\ pc = "influx" /\ cfg.L = 3 /\ mv.moved /\ mv.mover >= 0
    /\ Occurrences(mv.s_2, mv.mover) = 1

\* C14: right after construction the occupant lists hold int(L*L*N) agents,
\* total and alive summed over the categories both equal that number, and
\* every dead counter is 0.
C14_PopulationAfterConstruction ==
    JustConstructed =>
      LET P == population(cfg.L, cfg.N10)
      IN  /\ SumSeq([k \in 1..(cfg.L * cfg.L) |-> Len(occupants[k - 1])]) = P
          /\ Len(agents) = P /\ num_agents = P
          /\ SumSeq([c \in Categories |-> stats[c].total]) = P
          /\ SumSeq([c \in Categories |-> stats[c].alive]) = P
          /\ \A c \in Categories : stats[c].dead = 0

\* three agents, one of them seeded, stand on the lattice after construction
C14_Witness ==
    /\ JustConstructed /\ population(cfg.L, cfg.N10) = 3 /\ Len(agents) = 3
    /\ \E o \in AgentIds : agents[o + 1].label = "asymptomatic"

\* one step, on the label of every agent
C15_Step ==
    \A o \in AgentIds :
      LET before == agents[o + 1].label
          after == agents'[o + 1].label
      IN  \/ after = before
          \/ before = "healthy" /\ after = "asymptomatic" /\ pc = "infection"
          \/ before = "asymptomatic" /\ after = "symptomatic" /\ pc = "death"
          \/ before = "symptomatic" /\ after = "dead" /\ pc = "death"

\* C15: an agent's label only moves one step forward at a time: healthy to
\* asymptomatic in an infection phase, asymptomatic to symptomatic and
\* symptomatic to dead in a death phase; dead is final, healthy never returns.
C15_LabelsMoveForward == [][C15_Step]_vars

\* with one seeded agent two agents are dead: one of them was healthy after
\* construction, was infected by an exposure and went through the whole course
C15_Witness ==
    /\ cfg.n_0 = 1
    /\ Cardinality({ o \in AgentIds : agents[o + 1].label = "dead" }) >= 2

\* the site in whose occupant list agent o stands
SiteOf(o) == CHOOSE s \in Sites(cfg.L) : Occurrences(s, o) >= 1

\* one infection phase, on the log of expose_to_infection calls
C16_Step ==
    pc = "infection" =>
      \A i \in AgentIds : \A o \in AgentIds :
        ( /\ get_infectious(agents[i + 1])
          /\ SiteOf(o) = SiteOf(i) \/ Adjacent(cfg.L, SiteOf(i), SiteOf(o)) )
        => hist'[o + 1].exposed

\* C16: in the infection phase expose_to_infection is called on every
\* occupant of the site of every infectious agent and of every neighboring
\* site, the last occupant of a list and a single occupant included.
C16_ExposesEveryOccupant == [][C16_Step]_vars

\* C17: when the movement phase has relocated an agent, the destination holds
\* no symptomatic occupant, in whatever position of its occupant list.
C17_NoMoveToSymptomaticSite ==
    (pc = "influx" /\ mv.moved) =>
      \A k \in 1..Len(occupants[mv.s_2]) :
        ~get_symptomatic(agents[occupants[mv.s_2][k] + 1])

\* C18: one movement phase resamples the destination at most 30 times, and a
\* phase that gives up moves no agent.
C18_AtMost30Resamples ==
    /\ mv.repeat_counter <= MaxRepeat
    /\ (pc = "influx" /\ mv.mover < 0) => ~mv.moved

\* C19: a mover that is not symptomatic and would have fewer occupants of its
\* age category at the destination is refused for at least one draw (so for
\* the largest one), and is accepted for every draw otherwise.
C19_SparserDestinationDiscouraged ==
    (pc = "unit" /\ ucall.op = "move_agent"
                /\ ucall.before.label # "symptomatic") =>
      /\ (ucall.n_age_2 < ucall.n_age_1 /\ ucall.d = MaxDraw) => ucall.ret = FALSE
      /\ ucall.n_age_2 >= ucall.n_age_1 => ucall.ret = TRUE

\* C20: a dead agent is never relocated by a movement phase.
C20_DeadStaysPut ==
    (pc = "influx" /\ mv.mover >= 0 /\ agents[mv.mover + 1].label = "dead") =>
      /\ ~mv.moved
      /\ Occurrences(mv.s_1, mv.mover) = 1

\* one death phase, on the agents the infection phase before it infected
C21_Step ==
    pc = "death" =>
      \A o \in AgentIds :
        hist[o + 1].caught =>
          /\ agents'[o + 1].label = "asymptomatic"
          /\ agents'[o + 1].days_infected = 0

\* C21: an agent infected in the infection phase of a tick is not advanced
\* by the death phase of the same tick: after it the agent is still
\* asymptomatic with days_infected 0, also when asym_l = 0.
C21_NotAdvancedInSameTick == [][C21_Step]_vars

\* the agents of age category c
OfCategory(c) == { o \in AgentIds : agents[o + 1].age = c }

\* the counters of every category against the labels of its agents
C22_Agree ==
    stats # <<>> =>
      \A c \in Categories :
        LET dead == Cardinality({ o \in AgentIds : /\ agents[o + 1].age = c
                                                   /\ agents[o + 1].label = "dead" })
        IN  /\ stats[c].dead = dead
            /\ stats[c].alive = Cardinality(OfCategory(c)) - dead
            /\ stats[c].total = stats[c].alive + stats[c].dead
            /\ stats[c].total >= 0

\* C22: in every state and for every age category alive is the number of its
\* agents that are not dead, dead the number that are dead, and total is
\* alive + dead.
C22_CountersMatchAgents == []C22_Agree

\* a category holds a dead agent and one that is not dead
C22_Witness ==
    /\ Constructed
    /\ \E c \in Categories :
         /\ stats[c].dead = 1 /\ stats[c].alive = 1
         /\ \E o \in OfCategory(c) : agents[o + 1].label = "dead"
         /\ \E o \in OfCategory(c) : agents[o + 1].label # "dead"

\* the infected counter of every category against the labels of its agents
C23_Agree ==
    stats # <<>> =>
      /\ \A o \in AgentIds :
           hist[o + 1].counted = IF agents[o + 1].label = "healthy" THEN 0 ELSE 1
      /\ \A c \in Categories :
           /\ stats[c].infected =
                Cardinality({ o \in AgentIds : /\ agents[o + 1].age = c
                                               /\ agents[o + 1].label # "healthy" })
           /\ stats[c].dead <= stats[c].infected
           /\ stats[c].infected <= stats[c].total

\* C23: in every state and for every age category infected is the number of
\* its agents that are not healthy, each counted once at its infection (seed
\* or exposure), so dead <= infected <= total.
C23_InfectedMatchesAgents == []C23_Agree

\* a category counts two infections, the seed and one by exposure, next to
\* an agent that was exposed and stayed healthy
C23_Witness ==
    /\ cfg.n_0 = 1 /\ Len(agents) = 3
    /\ \E c \in Categories :
         /\ stats[c].infected = 2 /\ stats[c].total = 3
         /\ \E o \in OfCategory(c) :
              agents[o + 1].label = "healthy" /\ hist[o + 1].exposed

\* every agent stands once in one occupant list, and the lists hold nothing else
C24_Placed ==
    occupants # <<>> =>
      /\ \A o \in AgentIds :
           SumSeq([k \in 1..(cfg.L * cfg.L) |-> Occurrences(k - 1, o)]) = 1
      /\ SumSeq([k \in 1..(cfg.L * cfg.L) |-> Len(occupants[k - 1])]) = Len(agents)
      /\ SumSeq([c \in Categories |-> stats[c].total]) = Len(agents)

\* the agents grow by at most one per tick, and in the influx phase only
C24_Step ==
    Constructed =>
      /\ Len(agents') \in {Len(agents), Len(agents) + 1}
      /\ Len(agents') # Len(agents) => pc = "influx" /\ time_elapsed' = time_elapsed + 1

\* C24: in every state each created agent occurs exactly once in exactly one
\* occupant list, also after a move and after its death, so the occupants
\* over all sites number the sum of total, which grows by at most 1 per tick.
C24_EachAgentOnOneSite == []C24_Placed /\ [][C24_Step]_vars

\* a dead agent has been moved away from a site that keeps another occupant
C24_Witness ==
    /\ pc = "influx" /\ mv.moved /\ mv.mover >= 0
    /\ agents[mv.mover + 1].label = "dead"
    /\ Len(occupants[mv.s_1]) >= 1
    /\ Occurrences(mv.s_2, mv.mover) = 1

\* C25: the lattice has exactly the sites 0..L*L-1, and the neighbors of
\* site i*L + j are exactly the sites i'*L + j' at distance
\* max(|i - i'|, |j - j'|) = 1: 8 inside, 5 on an edge, 3 in a corner, none
\* for L = 1; the relation is symmetric and has no self-loop, and the occupant
\* lists start empty (they hold the created agents only).
C25_LatticeNeighbors ==
    (JustConstructed \/ pc = "populate_hang") =>
      LET L == cfg.L
          border(x) == IF L = 1 THEN 2 ELSE IF x \in {0, L - 1} THEN 1 ELSE 0
          degree(s) == (3 - border(s \div L)) * (3 - border(s % L)) - 1
      IN  /\ DOMAIN occupants = 0..(L * L - 1)
          /\ DOMAIN Lattice[L] = 0..(L * L - 1)
          /\ \A s \in Sites(L) :
               /\ neighbors(L, s) = { n \in Sites(L) : Adjacent(L, s, n) }
               /\ Cardinality(neighbors(L, s)) = degree(s)
               /\ Cardinality(neighbors(L, s)) \in {0, 3, 5, 8}
               /\ s \notin neighbors(L, s)
               /\ \A n \in neighbors(L, s) : s \in neighbors(L, n)
               /\ \A k \in 1..Len(occupants[s]) : occupants[s][k] \in AgentIds
          /\ pc = "populate_hang" => \A s \in Sites(L) : occupants[s] = <<>>

\* the 3 x 3 lattice is built: the site in the middle has 8 neighbors, a
\* site on an edge 5 and a corner 3
C25_Witness ==
    /\ JustConstructed /\ cfg.L = 3
    /\ Cardinality(neighbors(3, 4)) = 8
    /\ Cardinality(neighbors(3, 1)) = 5
    /\ Cardinality(neighbors(3, 0)) = 3

====
